---- MODULE Spec2Model ----
(***************************************************************************)
(* Model of src/drivetrain.py: class Drivetrain (bicycle drivetrain with   *)
(* sorted front and rear cog lists), its search get_gear_combination and   *)
(* its shift planner get_shift_sequence.                                   *)
(*                                                                         *)
(* Ratios.  gear_ratio returns the float front_teeth / rear_teeth.  Python *)
(* true division of ints is correctly rounded, hence monotone, and two     *)
(* distinct fractions of small integers are many ulps apart, so for the    *)
(* tooth counts and targets considered here a float comparison agrees with *)
(* the comparison of the exact fractions.  A ratio is therefore modelled   *)
(* as the fraction in lowest terms <<num, den>>, equal exactly when the    *)
(* floats are equal, and compared by cross multiplication.                 *)
(*                                                                         *)
(* Indices.  Python lists are 0-based, TLA+ sequences 1-based; every index *)
(* below is the Python index plus one.                                     *)
(***************************************************************************)
EXTENDS Integers, Sequences, FiniteSets, TLC

\* ---------------------------------------------------------------- bounds
\* largest tooth count of a cog (and of an initial gear value)
MaxTeeth == 3
\* largest number of front cogs and of rear cogs
MaxFrontCogs == 2
MaxRearCogs == 3
\* targets are the fractions n/TargetDen, n in 0..MaxTargetNum
MaxTargetNum == 6
TargetDen == 2

Teeth == 1..MaxTeeth
Targets == {<<n, TargetDen>> : n \in 0..MaxTargetNum}

RECURSIVE SeqsUpTo(_, _)
SeqsUpTo(S, n) ==
    IF n = 0 THEN {<<>>}
    ELSE LET shorter == SeqsUpTo(S, n - 1)
         IN  shorter \cup {Append(s, x) : s \in {q \in shorter : Len(q) = n - 1}, x \in S}

FrontCogLists == SeqsUpTo(Teeth, MaxFrontCogs)
RearCogLists == SeqsUpTo(Teeth, MaxRearCogs)

\* ------------------------------------------------------------ helpers
Range(s) == {s[i] : i \in 1..Len(s)}

RECURSIVE GCD(_, _)
GCD(a, b) == IF b = 0 THEN a ELSE GCD(b, a % b)

\* a <= b, a < b for fractions with positive denominators
RatioLeq(a, b) == a[1] * b[2] <= b[1] * a[2]
RatioLess(a, b) == a[1] * b[2] < b[1] * a[2]

\* sorted(xs): ascending insertion of the elements in list order
InsertAsc(s, x) ==
    LET later == {i \in 1..Len(s) : s[i] > x}
        p == IF later = {} THEN Len(s) + 1 ELSE CHOOSE i \in later : \A j \in later : i <= j
    IN  SubSeq(s, 1, p - 1) \o <<x>> \o SubSeq(s, p, Len(s))

RECURSIVE sorted(_)
sorted(xs) ==
    IF xs = <<>> THEN <<>>
    ELSE InsertAsc(sorted(SubSeq(xs, 1, Len(xs) - 1)), xs[Len(xs)])

\* list.index(x): position of the first occurrence, 0 when list.index raises
index(s, x) ==
    LET hits == {i \in 1..Len(s) : s[i] = x}
    IN  IF hits = {} THEN 0 ELSE CHOOSE i \in hits : \A j \in hits : i <= j

\* Drivetrain.gear_ratio
gear_ratio(front_teeth, rear_teeth) ==
    LET g == GCD(front_teeth, rear_teeth)
    IN  <<front_teeth \div g, rear_teeth \div g>>

\* the tuple (f, r, ratio)
Combo(f, r) == <<f, r, gear_ratio(f, r)>>
NoCombo == <<0, 0, <<0, 1>>>>

\* -------------------------------------------------- get_gear_combination
\* the nested loops: every (f, r) in front-major, rear-minor order, kept
\* when ratio <= target_ratio
valid_combinations_strict(fc, rc, target_ratio) ==
    LET all == [k \in 1..(Len(fc) * Len(rc)) |->
                   Combo(fc[((k - 1) \div Len(rc)) + 1], rc[((k - 1) % Len(rc)) + 1])]
    IN  SelectSeq(all, LAMBDA c : RatioLess(c[3], target_ratio))

valid_combinations(fc, rc, target_ratio) ==
    LET all == [k \in 1..(Len(fc) * Len(rc)) |->
                   Combo(fc[((k - 1) \div Len(rc)) + 1], rc[((k - 1) % Len(rc)) + 1])]
    IN  SelectSeq(all, LAMBDA c : RatioLeq(c[3], target_ratio))

\* list.sort(key=ratio, reverse=True): stable, equal ratios keep their order
InsertDescUnstable(s, c) ==
    LET notabove == {i \in 1..Len(s) : RatioLeq(s[i][3], c[3])}
        p == IF notabove = {} THEN Len(s) + 1
             ELSE CHOOSE i \in notabove : \A j \in notabove : i <= j
    IN  SubSeq(s, 1, p - 1) \o <<c>> \o SubSeq(s, p, Len(s))

InsertDesc(s, c) ==
    LET below == {i \in 1..Len(s) : RatioLess(s[i][3], c[3])}
        p == IF below = {} THEN Len(s) + 1
             ELSE CHOOSE i \in below : \A j \in below : i <= j
    IN  SubSeq(s, 1, p - 1) \o <<c>> \o SubSeq(s, p, Len(s))

RECURSIVE sort_by_ratio_desc(_)
sort_by_ratio_desc(cs) ==
    IF cs = <<>> THEN <<>>
    ELSE InsertDesc(sort_by_ratio_desc(SubSeq(cs, 1, Len(cs) - 1)), cs[Len(cs)])

get_gear_combination_unchecked(fc, rc, target_ratio) ==
    LET valid == valid_combinations(fc, rc, target_ratio)
    IN  IF valid = <<>>
        THEN [err |-> "IndexError", combo |-> NoCombo]
        ELSE [err |-> "none", combo |-> sort_by_ratio_desc(valid)[1]]

get_gear_combination(fc, rc, target_ratio) ==
    LET valid == valid_combinations(fc, rc, target_ratio)
    IN  IF valid = <<>>
        THEN [err |-> "GearRatioNotFoundError", combo |-> NoCombo]
        ELSE [err |-> "none", combo |-> sort_by_ratio_desc(valid)[1]]

\* ---------------------------------------------------- get_shift_sequence
Reverse(s) == [i \in 1..Len(s) |-> s[Len(s) + 1 - i]]

\* record_step: append (f, r, gear_ratio(f, r))
record_step(shift_sequence, f, r) == Append(shift_sequence, Combo(f, r))

\* "Switch front cog directly"
front_shift_stale(shift_sequence, current_front, final_front, current_rear) ==
    IF current_front # final_front
    THEN record_step(shift_sequence, current_front, current_rear)
    ELSE shift_sequence

front_shift(shift_sequence, current_front, final_front, current_rear) ==
    IF current_front # final_front
    THEN record_step(shift_sequence, final_front, current_rear)
    ELSE shift_sequence

\* the rear cogs that can be shifted through, starting at the current one
candidate_rears_jump(rc, current_rear, final_rear) ==
    IF current_rear \in Range(rc) THEN <<current_rear, final_rear>> ELSE <<final_rear>>

candidate_rears(rc, current_rear, final_rear) ==
    IF final_rear > current_rear
    THEN SelectSeq(rc, LAMBDA r : r >= current_rear)
    ELSE SelectSeq(Reverse(rc), LAMBDA r : r <= current_rear)

\* range(step_index, final_index + 1) or range(step_index, final_index - 1, -1)
step_range_short(step_index, final_index) ==
    IF final_index >= step_index
    THEN [k \in 1..(final_index - step_index) |-> step_index + k - 1]
    ELSE [k \in 1..(step_index - final_index) |-> step_index - k + 1]

step_range(step_index, final_index) ==
    IF final_index >= step_index
    THEN [k \in 1..(final_index - step_index + 1) |-> step_index + k - 1]
    ELSE [k \in 1..(step_index - final_index + 1) |-> step_index - k + 1]

\* one iteration of "for i in step_range": the sequence after it
loop_record_always(shift_sequence, current_front, current_rear, new_rear) ==
    record_step(shift_sequence, current_front, new_rear)

loop_record(shift_sequence, current_front, current_rear, new_rear) ==
    IF new_rear # current_rear
    THEN record_step(shift_sequence, current_front, new_rear)
    ELSE shift_sequence

\* the loop "for i in step_range", from its k-th iteration on
RECURSIVE rear_walk(_, _, _, _, _, _)
rear_walk(cand, rng, k, current_front, current_rear, shift_sequence) ==
    IF k > Len(rng) THEN shift_sequence
    ELSE LET new_rear == cand[rng[k]]
         IN  rear_walk(cand, rng, k + 1, current_front, new_rear,
                       loop_record(shift_sequence, current_front, current_rear, new_rear))

Raised(e) == [err |-> e, combo |-> NoCombo, seq |-> <<>>]

get_shift_sequence(fc, rc, target_ratio, initial_gear) ==
    LET best == get_gear_combination(fc, rc, target_ratio)
    IN  IF best.err # "none" THEN Raised(best.err)
        ELSE
        LET final_front == best.combo[1]
            final_rear == best.combo[2]
            initial_front == initial_gear[1]
            current_rear == initial_gear[2]
            s0 == record_step(<<>>, initial_front, current_rear)
            s1 == front_shift(s0, initial_front, final_front, current_rear)
            current_front == final_front
        IN  IF current_rear = final_rear
            THEN [err |-> "none", combo |-> NoCombo, seq |-> s1]
            ELSE
            LET cand == candidate_rears(rc, current_rear, final_rear)
                step_index == index(cand, current_rear)
                final_index == index(cand, final_rear)
            IN  IF step_index = 0 \/ final_index = 0
                THEN Raised("ValueError")
                ELSE [err |-> "none", combo |-> NoCombo,
                      seq |-> rear_walk(cand, step_range(step_index, final_index), 1,
                                        current_front, current_rear, s1)]

\* ------------------------------------------------------------- the state
\* front_cogs, rear_cogs: self.front_cogs, self.rear_cogs
\* pc: the caller, "constructed" before its call, "returned" after
\* call: the call made (operation, target_ratio, initial_gear)
\* result: what the call gave (error raised, combination, sequence)
VARIABLES front_cogs, rear_cogs, pc, call, result

vars == <<front_cogs, rear_cogs, pc, call, result>>

NoCall == [op |-> "none", target_ratio |-> <<0, 1>>, initial_gear |-> <<0, 0>>]
NoResult == [err |-> "none", combo |-> NoCombo, seq |-> <<>>]

\* Drivetrain.__init__
Init ==
    /\ \E fc \in FrontCogLists : front_cogs = sorted(fc)
    /\ \E rc \in RearCogLists : rear_cogs = sorted(rc)
    /\ pc = "constructed"
    /\ call = NoCall
    /\ result = NoResult

GetGearCombination ==
    /\ pc = "constructed"
    /\ \E t \in Targets :
        /\ call' = [op |-> "get_gear_combination", target_ratio |-> t,
                    initial_gear |-> <<0, 0>>]
        /\ result' = LET found == get_gear_combination(front_cogs, rear_cogs, t)
                      IN  [err |-> found.err, combo |-> found.combo, seq |-> <<>>]
    /\ pc' = "returned"
    /\ UNCHANGED <<front_cogs, rear_cogs>>

GetShiftSequence ==
    /\ pc = "constructed"
    /\ \E t \in Targets, f \in Teeth, r \in Teeth :
        /\ call' = [op |-> "get_shift_sequence", target_ratio |-> t,
                    initial_gear |-> <<f, r>>]
        /\ result' = get_shift_sequence(front_cogs, rear_cogs, t, <<f, r>>)
    /\ pc' = "returned"
    /\ UNCHANGED <<front_cogs, rear_cogs>>

Next == GetGearCombination \/ GetShiftSequence

Spec == Init /\ [][Next]_vars

\* ------------------------------------------------------------ properties
FrontSet == Range(front_cogs)
RearSet == Range(rear_cogs)
Pairs == FrontSet \X RearSet

\* some (front, rear) pair has ratio <= t
Achievable(t) == \E p \in Pairs : RatioLeq(p, t)

SearchReturned == pc = "returned" /\ call.op = "get_gear_combination"
ShiftReturned == pc = "returned" /\ call.op = "get_shift_sequence"
ShiftGaveSequence == ShiftReturned /\ result.err = "none"

InitialFront == call.initial_gear[1]
InitialRear == call.initial_gear[2]
ValidInitialGear == InitialFront \in FrontSet /\ InitialRear \in RearSet

\* the search result for the target of the call made
Found == get_gear_combination(front_cogs, rear_cogs, call.target_ratio).combo

\* c is the tuple (f, r, f/r)
IsCombo(c) == c[3][2] > 0 /\ c[3][1] * c[2] = c[1] * c[3][2]

Steps == result.seq
FrontStepAt(i) == Steps[i][1] # Steps[i + 1][1]
RearStepAt(i) == Steps[i][2] # Steps[i + 1][2]

\* C1: with non-empty cog sets and a target some pair does not exceed,
\* get_gear_combination returns (f, r, f/r) with f a front cog, r a rear cog
\* and f/r <= target, and no pair of the cross product has a ratio strictly
\* between f/r and the target (or equal to the target, above f/r).
C1_ClosestNotAbove ==
    (SearchReturned /\ front_cogs # <<>> /\ rear_cogs # <<>>
        /\ Achievable(call.target_ratio))
    => /\ result.err = "none"
       /\ result.combo[1] \in FrontSet
       /\ result.combo[2] \in RearSet
       /\ IsCombo(result.combo)
       /\ RatioLeq(result.combo[3], call.target_ratio)
       /\ \A p \in Pairs :
            ~(RatioLess(result.combo[3], p) /\ RatioLeq(p, call.target_ratio))

\* the search returned while one pair is above the target and two pairs of
\* different ratio are not
C1_Witness ==
    /\ SearchReturned /\ result.err = "none"
    /\ \E p \in Pairs : RatioLess(call.target_ratio, p)
    /\ \E p, q \in Pairs : /\ RatioLess(p, q)
                           /\ RatioLeq(q, call.target_ratio)

\* C2: get_shift_sequence raises the invalid-initial-gear error (ValueError)
\* and returns no sequence whenever the initial front is not a front cog or
\* the initial rear is not a rear cog, whatever the target.
C2_InvalidInitialGearRaises ==
    (ShiftReturned /\ ~ValidInitialGear)
    => (result.err = "ValueError" /\ result.seq = <<>>)

\* C3: the membership check precedes the search: with an initial gear that is
\* not a member and no pair with ratio <= target, get_shift_sequence raises
\* the invalid-initial-gear error, not GearRatioNotFoundError.
C3_InvalidCheckedBeforeSearch ==
    (ShiftReturned /\ ~ValidInitialGear /\ ~Achievable(call.target_ratio))
    => result.err = "ValueError"

\* C4: get_gear_combination raises GearRatioNotFoundError exactly when no
\* pair of the cross product has ratio <= target (so for an empty front cog
\* list, for an empty rear cog list and for a target below the smallest
\* ratio); otherwise it returns a combination and raises nothing.
C4_NotFoundExactly ==
    SearchReturned
    => /\ result.err \in {"none", "GearRatioNotFoundError"}
       /\ (result.err = "GearRatioNotFoundError") <=> ~Achievable(call.target_ratio)
       /\ (front_cogs = <<>> \/ rear_cogs = <<>>) => result.err = "GearRatioNotFoundError"
       /\ result.err = "none" => result.combo # NoCombo

\* the search raised with cogs on both sides and a positive target
C4_Witness ==
    /\ SearchReturned /\ result.err = "GearRatioNotFoundError"
    /\ front_cogs # <<>> /\ rear_cogs # <<>>
    /\ call.target_ratio[1] > 0

\* C5: among the pairs that share the returned (maximum) ratio, the one
\* returned is the first in front-ascending, then rear-ascending order: the
\* tied pair with the smallest front tooth count.
C5_TieBreakFirstEnumerated ==
    (SearchReturned /\ result.err = "none")
    => \A p \in Pairs :
         (gear_ratio(p[1], p[2]) = result.combo[3])
         => \/ result.combo[1] < p[1]
            \/ (result.combo[1] = p[1] /\ result.combo[2] <= p[2])

\* the search returned a ratio that a pair with a larger front cog shares
C5_Witness ==
    /\ SearchReturned /\ result.err = "none"
    /\ \E p \in Pairs : /\ gear_ratio(p[1], p[2]) = result.combo[3]
                        /\ p[1] > result.combo[1]

\* C6: a returned shift sequence is non-empty, starts with the initial
\* combination (initialFront, initialRear, ratio), ends on the (front, rear)
\* that get_gear_combination gives for the same target, and so ends with a
\* ratio <= target.
C6_SequenceEndpoints ==
    ShiftGaveSequence
    => /\ Len(Steps) >= 1
       /\ Steps[1][1] = InitialFront /\ Steps[1][2] = InitialRear /\ IsCombo(Steps[1])
       /\ Steps[Len(Steps)][1] = Found[1] /\ Steps[Len(Steps)][2] = Found[2]
       /\ IsCombo(Steps[Len(Steps)])
       /\ RatioLeq(Steps[Len(Steps)][3], call.target_ratio)

\* from a valid initial gear a sequence was returned whose last element differs from its first in
\* both cogs
C6_Witness ==
    /\ ShiftGaveSequence /\ ValidInitialGear
    /\ Len(Steps) >= 3
    /\ Steps[1][1] # Steps[Len(Steps)][1]
    /\ Steps[1][2] # Steps[Len(Steps)][2]

\* C7: adjacent elements of a returned shift sequence differ in exactly one
\* of front and rear, never in both and never in neither.
C7_AdjacentDifferInOne ==
    ShiftGaveSequence
    => \A i \in 1..(Len(Steps) - 1) : FrontStepAt(i) # RearStepAt(i)

\* from a valid initial gear a sequence with a front step and at least two
\* rear steps was returned
C7_Witness ==
    /\ ShiftGaveSequence /\ ValidInitialGear
    /\ Len(Steps) >= 4
    /\ \E i \in 1..(Len(Steps) - 1) : FrontStepAt(i)
    /\ rear_cogs[1] # rear_cogs[Len(rear_cogs)]

\* C8: every element of a returned shift sequence, the first included, has
\* its front value among the front cogs and its rear value among the rear
\* cogs.
C8_ElementsAreCogs ==
    ShiftGaveSequence
    => \A i \in 1..Len(Steps) : Steps[i][1] \in FrontSet /\ Steps[i][2] \in RearSet

\* C9: for a valid initial gear and distinct rear cogs, the rear values of a
\* returned sequence from its first element with the final front on are the
\* contiguous run of the sorted rear cogs from initialRear to finalRear
\* inclusive, ascending when finalRear > initialRear, descending when
\* finalRear < initialRear.
RearsFromFinalFront ==
    LET at == {i \in 1..Len(Steps) : Steps[i][1] = Found[1]}
        first == CHOOSE i \in at : \A j \in at : i <= j
    IN  IF at = {} THEN <<>>
        ELSE [k \in 1..(Len(Steps) - first + 1) |-> Steps[first + k - 1][2]]

RearRun ==
    LET a == index(rear_cogs, InitialRear)
        b == index(rear_cogs, Found[2])
    IN  IF a <= b THEN SubSeq(rear_cogs, a, b)
        ELSE Reverse(SubSeq(rear_cogs, b, a))

DistinctRearCogs == Cardinality(RearSet) = Len(rear_cogs)

C9_RearWalksEveryCog ==
    (ShiftGaveSequence /\ ValidInitialGear /\ DistinctRearCogs)
    => RearsFromFinalFront = RearRun

\* an ascending walk over three distinct rear cogs whose middle ratio is
\* above the target
C9_Witness ==
    /\ ShiftGaveSequence /\ ValidInitialGear /\ DistinctRearCogs
    /\ Len(RearRun) = 3
    /\ InitialRear < Found[2]
    /\ RatioLess(call.target_ratio, Steps[Len(Steps) - 1][3])

\* C10: the front value of a returned sequence changes at most once.  When
\* the final front differs from the initial one, the change is the step from
\* the first to the second element, straight to the final front with the
\* rear still the initial rear, before any rear change; when they are equal
\* every element has the initial front.
C10_FrontChangesOnceFirst ==
    ShiftGaveSequence
    => IF Found[1] # InitialFront
       THEN /\ Len(Steps) >= 2
            /\ Steps[1][1] = InitialFront
            /\ Steps[2][1] = Found[1] /\ Steps[2][2] = InitialRear
            /\ Steps[1][2] = InitialRear
            /\ \A i \in 2..(Len(Steps) - 1) : ~FrontStepAt(i)
       ELSE \A i \in 1..Len(Steps) : Steps[i][1] = InitialFront

\* from a valid initial gear a front change followed by a descending rear
\* walk was returned
C10_Witness ==
    /\ ShiftGaveSequence /\ ValidInitialGear
    /\ Found[1] # InitialFront
    /\ Len(Steps) >= 3
    /\ Steps[Len(Steps)][2] < InitialRear
====
